---- MODULE Spec2Model ----
(***************************************************************************)
(* The schedule block layout engine of src/algorithm/Renderer.cpp.         *)
(*                                                                         *)
(* compute() is modelled stage by stage: setup, S1 interval scheduling,    *)
(* S2 constructAdjList, S3 condenseAdjList, S4 seeding, S5 fixed           *)
(* detection, the S6 refinement loop (one action per component solved,     *)
(* one per end-of-iteration bookkeeping), the MILP alternative and the     *)
(* aggregation.  Blocks are indexed by their idx (0 .. N-1), adjacency     *)
(* vectors are sequences of idx in push_back order, matrix is the flat     *)
(* array the code indexes with i*N+j.  left and width are exact rationals  *)
(* <<numerator, denominator>>.                                             *)
(***************************************************************************)
EXTENDS Integers, Sequences, FiniteSets, TLC

VARIABLES
    pc,               \* position inside / between the exported calls
    opts,             \* isTolerance, ISMethod, applyDFS, dfsTolerance, LPIters, LPModel, MILP
    N,                \* Renderer::N
    maxN,             \* Renderer::maxN
    blocks,           \* Renderer::blocks, a function on 0 .. maxN-1
    blocksReordered,  \* Renderer::blocksReordered, a sequence of idx
    blockBuffer,      \* Renderer::blockBuffer, a function on 0 .. maxN-1
    idxMap,           \* Renderer::idxMap, a function on 0 .. maxN-1
    matrix,           \* Renderer::matrix, a function on 0 .. maxN*maxN-1
    total,            \* the local total of compute
    prevFixedCount,   \* the local prevFixedCount of compute
    iter,             \* the loop counter i of the S6 loop
    r_sum,            \* Renderer::r_sum
    r_sumSq,          \* Renderer::r_sumSq
    arr,              \* the argument of the running / last compute call
    ran,              \* iterations of the S6 loop completed in this call
    solver,           \* which optimal basic solution the solver reports
    calls             \* history: argument, options and result of the calls
                      \* that returned before the running / last one

vars == <<pc, opts, N, maxN, blocks, blocksReordered, blockBuffer, idxMap,
          matrix, total, prevFixedCount, iter, r_sum, r_sumSq, arr, ran, solver, calls>>

----------------------------------------------------------------------------
(* Bounds of the model.                                                    *)

\* blocks per compute call, and the largest endMin, when S1-S3 are explored
MaxN == 4
MaxT == 3
\* the positive value an integer tolerance option may take besides 0
MaxTol == 1

----------------------------------------------------------------------------
(* Exact rationals.                                                        *)

Abs(x) == IF x < 0 THEN -x ELSE x

RECURSIVE Gcd(_, _)
Gcd(a, b) == IF b = 0 THEN a ELSE Gcd(b, a % b)

Norm(n, d) ==
    LET g == Gcd(Abs(n), Abs(d))
        s == IF d < 0 THEN -1 ELSE 1
    IN  <<(s * n) \div g, (s * d) \div g>>

Rat(n, d) == Norm(n, d)
Zero == <<0, 1>>
One == <<1, 1>>
RAdd(x, y) == Norm(x[1] * y[2] + y[1] * x[2], x[2] * y[2])
RSub(x, y) == Norm(x[1] * y[2] - y[1] * x[2], x[2] * y[2])
RMul(x, y) == Norm(x[1] * y[1], x[2] * y[2])
RDivInt(x, k) == Norm(x[1], x[2] * k)
RLe(x, y) == x[1] * y[2] <= y[1] * x[2]
RLt(x, y) == x[1] * y[2] < y[1] * x[2]
RMax(x, y) == IF RLt(x, y) THEN y ELSE x
RMin(x, y) == IF RLt(y, x) THEN y ELSE x
RAbs(x) == <<Abs(x[1]), x[2]>>

\* #define DOUBLE_EPS 1e-8, as the denominator of 1/10^8
DOUBLE_EPS_DEN == 100000000

\* abs(x) < DOUBLE_EPS, without multiplying by 10^8
NearZero(x) == Abs(x[1]) * 1 <= (x[2] - 1) \div DOUBLE_EPS_DEN

\* x <= y + DOUBLE_EPS
LeEps(x, y) ==
    \/ RLe(x, y)
    \/ LET diff == RSub(x, y) IN diff[1] <= diff[2] \div DOUBLE_EPS_DEN

----------------------------------------------------------------------------
(* Values of memory the program never wrote.                               *)

JunkInt == -1
JunkRat == <<-1, 1>>

\* what "new ((void*)&blocks[i]) ScheduleBlock" leaves in a block
NewBlock ==
    [isFixed |-> FALSE, visited |-> FALSE, startMin |-> JunkInt,
     endMin |-> JunkInt, duration |-> JunkInt, idx |-> JunkInt,
     depth |-> JunkInt, pathDepth |-> JunkInt, left |-> JunkRat,
     width |-> JunkRat, leftN |-> <<>>, rightN |-> <<>>,
     cleftN |-> <<>>, crightN |-> <<>>]

\* the int16_t of ScheduleBlock::duration
Int16(x) == ((x + 32768) % 65536) - 32768

Range(s) == {s[i] : i \in DOMAIN s}

----------------------------------------------------------------------------
(* sortByStartTime: std::sort of at most 16 elements is an insertion sort,  *)
(* which leaves equivalent elements in their order.                        *)

StartLess(bl, b1, b2) ==
    LET diff == bl[b1].startMin - bl[b2].startMin
    IN  IF diff = 0 THEN bl[b2].duration - bl[b1].duration < 0 ELSE diff < 0

RECURSIVE InsertByStart(_, _, _)
InsertByStart(bl, s, x) ==
    IF s = <<>> THEN <<x>>
    ELSE IF StartLess(bl, x, s[Len(s)])
         THEN Append(InsertByStart(bl, SubSeq(s, 1, Len(s) - 1), x), s[Len(s)])
         ELSE Append(s, x)

RECURSIVE sortByStartTime(_, _)
sortByStartTime(bl, s) ==
    IF s = <<>> THEN <<>>
    ELSE InsertByStart(bl, sortByStartTime(bl, SubSeq(s, 1, Len(s) - 1)), s[Len(s)])

----------------------------------------------------------------------------
(* S1, method 1: intervalScheduling.                                       *)

\* the test that lets a block reuse the room whose last block is prevBlock
RoomFree(prevBlock, block, isTolerance) ==
    prevBlock.endMin <= block.startMin + isTolerance

\* the scan over the occupied rooms: the index k kept in idx, or -1
PickRoom(bl, buf, occupiedSize, b, isTolerance) ==
    LET free == {k \in 0 .. occupiedSize - 1 : RoomFree(bl[buf[k]], bl[b], isTolerance)}
    IN  IF free = {} THEN -1
        ELSE CHOOSE k \in free :
                \A k2 \in free :
                    \/ bl[buf[k]].depth < bl[buf[k2]].depth
                    \/ bl[buf[k]].depth = bl[buf[k2]].depth /\ k <= k2

\* the loop "for (int i = 1; i < N; i++)"; i is the position in ro (1-based)
RECURSIVE IS1Loop(_, _, _, _, _, _, _)
IS1Loop(bl, ro, buf, occupiedSize, numRooms, i, isTolerance) ==
    IF i > Len(ro) THEN [blocks |-> bl, blockBuffer |-> buf, total |-> numRooms + 1]
    ELSE LET b == ro[i]
             k == PickRoom(bl, buf, occupiedSize, b, isTolerance)
         IN  IF k = -1
             THEN IS1Loop([bl EXCEPT ![b].depth = numRooms + 1], ro,
                          [buf EXCEPT ![occupiedSize] = b],
                          occupiedSize + 1, numRooms + 1, i + 1, isTolerance)
             ELSE IS1Loop([bl EXCEPT ![b].depth = bl[buf[k]].depth], ro,
                          [buf EXCEPT ![k] = b],
                          occupiedSize, numRooms, i + 1, isTolerance)

\* a room count without the last "numRooms += 1"
intervalSchedulingLastRoom(bl, ro, buf, isTolerance) ==
    IF Len(ro) = 0 THEN [blocks |-> bl, blockBuffer |-> buf, total |-> 0]
    ELSE LET r == IS1Loop(bl, ro, [buf EXCEPT ![0] = ro[1]], 1, 0, 2, isTolerance)
         IN  [r EXCEPT !.total = r.total - 1]

intervalScheduling(bl, ro, buf, isTolerance) ==
    IF Len(ro) = 0 THEN [blocks |-> bl, blockBuffer |-> buf, total |-> 0]
    ELSE IS1Loop(bl, ro, [buf EXCEPT ![0] = ro[1]], 1, 0, 2, isTolerance)

----------------------------------------------------------------------------
(* S1, method 2: intervalScheduling2.                                      *)

\* the comparator of the priority queue: r1 is below r2
QueueComp(bl, r1, r2) ==
    LET diff == bl[r1].endMin - bl[r2].endMin
    IN  IF diff = 0 THEN bl[r1].depth - bl[r2].depth > 0 ELSE diff > 0

QueueTop(bl, queue) == CHOOSE x \in queue : \A y \in queue : ~QueueComp(bl, x, y)

\* "prevBlock->endMin + tolerance > block->startMin": a new room is needed
NeedsRoom(prevBlock, block, tolerance) ==
    prevBlock.endMin + tolerance > block.startMin

RECURSIVE IS2Loop(_, _, _, _, _, _)
IS2Loop(bl, ro, queue, numRooms, i, tolerance) ==
    IF i > Len(ro) THEN [blocks |-> bl, total |-> numRooms + 1]
    ELSE LET b == ro[i]
             prevBlock == QueueTop(bl, queue)
         IN  IF NeedsRoom(bl[prevBlock], bl[b], tolerance)
             THEN IS2Loop([bl EXCEPT ![b].depth = numRooms + 1], ro,
                          queue \cup {b}, numRooms + 1, i + 1, tolerance)
             ELSE IS2Loop([bl EXCEPT ![b].depth = bl[prevBlock].depth], ro,
                          (queue \ {prevBlock}) \cup {b}, numRooms, i + 1, tolerance)

intervalScheduling2(bl, ro, isTolerance) ==
    IF Len(ro) = 0 THEN [blocks |-> bl, total |-> 0]
    ELSE IS2Loop(bl, ro, {ro[1]}, 0, 2, isTolerance)

----------------------------------------------------------------------------
(* S2: constructAdjList.                                                   *)

\* a scan that goes on when bj starts exactly dfsTolerance before bi ends
ScanBreakStrict(bi, bj, tolerance) == bj.startMin + tolerance > bi.endMin

\* "if (bj->startMin + dfsTolerance >= bi->endMin) break;"
ScanBreak(bi, bj, tolerance) == bj.startMin + tolerance >= bi.endMin

\* the direction test of the pair: bi goes to the left of bj
GoesLeft(bi, bj) == bi.depth < bj.depth

RECURSIVE AdjInner(_, _, _, _, _, _, _)
AdjInner(bl, mx, ro, n, i, j, tolerance) ==
    IF j > Len(ro) THEN [blocks |-> bl, matrix |-> mx]
    ELSE LET bi == ro[i]
             bj == ro[j]
         IN  IF ScanBreak(bl[bi], bl[bj], tolerance)
             THEN [blocks |-> bl, matrix |-> mx]
             ELSE IF GoesLeft(bl[bi], bl[bj])
                  THEN AdjInner([bl EXCEPT ![bj].leftN = Append(@, bi),
                                           ![bi].rightN = Append(@, bj)],
                                [mx EXCEPT ![bl[bj].idx * n + bl[bi].idx] = TRUE],
                                ro, n, i, j + 1, tolerance)
                  ELSE AdjInner([bl EXCEPT ![bj].rightN = Append(@, bi),
                                           ![bi].leftN = Append(@, bj)],
                                [mx EXCEPT ![bl[bi].idx * n + bl[bj].idx] = TRUE],
                                ro, n, i, j + 1, tolerance)

RECURSIVE AdjOuter(_, _, _, _, _, _)
AdjOuter(bl, mx, ro, n, i, tolerance) ==
    IF i > Len(ro) THEN [blocks |-> bl, matrix |-> mx]
    ELSE LET r == AdjInner(bl, mx, ro, n, i, i + 1, tolerance)
         IN  AdjOuter(r.blocks, r.matrix, ro, n, i + 1, tolerance)

constructAdjList(bl, mx, ro, n, tolerance) == AdjOuter(bl, mx, ro, n, 1, tolerance)

----------------------------------------------------------------------------
(* S3: condenseAdjList.                                                    *)

\* the test of cleftN with the matrix read the other way round
KeepLeftTransposed(bl, mx, n, b, v1) ==
    \A k \in DOMAIN bl[b].leftN : ~mx[bl[v1].idx * n + bl[bl[b].leftN[k]].idx]

\* v1 stays in cleftN: no v of leftN has matrix[v->idx * N + v1->idx]
KeepLeft(bl, mx, n, b, v1) ==
    \A k \in DOMAIN bl[b].leftN : ~mx[bl[bl[b].leftN[k]].idx * n + bl[v1].idx]

\* the test of crightN with the matrix read the other way round
KeepRightTransposed(bl, mx, n, b, v1) ==
    \A k \in DOMAIN bl[b].rightN : ~mx[bl[bl[b].rightN[k]].idx * n + bl[v1].idx]

\* v1 stays in crightN: no v of rightN has matrix[v1->idx * N + v->idx]
KeepRight(bl, mx, n, b, v1) ==
    \A k \in DOMAIN bl[b].rightN : ~mx[bl[v1].idx * n + bl[bl[b].rightN[k]].idx]

condenseAdjList(bl, mx, n) ==
    [b \in DOMAIN bl |->
        IF b >= n THEN bl[b]
        ELSE LET keepL(v1) == KeepLeft(bl, mx, n, b, v1)
                 keepR(v1) == KeepRight(bl, mx, n, b, v1)
             IN  [bl[b] EXCEPT !.cleftN = @ \o SelectSeq(bl[b].leftN, keepL),
                               !.crightN = @ \o SelectSeq(bl[b].rightN, keepR)]]

----------------------------------------------------------------------------
(* S4: the seed layout.                                                    *)

computeInitialWidth(bl, n, tot) ==
    [b \in DOMAIN bl |->
        IF b >= n THEN bl[b]
        ELSE [bl[b] EXCEPT !.left = Rat(bl[b].depth, tot), !.width = Rat(1, tot)]]

\* the push loop of depthFirstSearchRec over start->cleftN
RECURSIVE PushUnvisited(_, _, _, _, _)
PushUnvisited(bl, buf, size, adj, k) ==
    IF k > Len(adj) THEN [blockBuffer |-> buf, size |-> size]
    ELSE IF ~bl[adj[k]].visited
         THEN PushUnvisited(bl, [buf EXCEPT ![size] = adj[k]], size + 1, adj, k + 1)
         ELSE PushUnvisited(bl, buf, size, adj, k + 1)

\* the loop "while (size > 0)" of depthFirstSearchRec
RECURSIVE SearchLoop(_, _, _, _)
SearchLoop(bl, buf, size, maxDepth) ==
    IF size <= 0 THEN [blocks |-> bl, blockBuffer |-> buf]
    ELSE LET start == buf[size - 1]
             bl1 == [bl EXCEPT ![start].visited = TRUE, ![start].pathDepth = maxDepth]
             r == PushUnvisited(bl1, buf, size - 1, bl1[start].cleftN, 1)
         IN  SearchLoop(bl1, r.blockBuffer, r.size, maxDepth)

depthFirstSearchRec(bl, buf, start, maxDepth) ==
    SearchLoop(bl, [buf EXCEPT ![0] = start], 1, maxDepth)

\* the comparator of the sort in dfsWidthExpansion
DepthLess(bl, b1, b2) == bl[b2].depth < bl[b1].depth

RECURSIVE InsertByDepth(_, _, _)
InsertByDepth(bl, s, x) ==
    IF s = <<>> THEN <<x>>
    ELSE IF DepthLess(bl, x, s[Len(s)])
         THEN Append(InsertByDepth(bl, SubSeq(s, 1, Len(s) - 1), x), s[Len(s)])
         ELSE Append(s, x)

RECURSIVE sortByDepth(_, _)
sortByDepth(bl, s) ==
    IF s = <<>> THEN <<>>
    ELSE InsertByDepth(bl, sortByDepth(bl, SubSeq(s, 1, Len(s) - 1)), s[Len(s)])

\* the loop over blocksReordered of dfsWidthExpansion
RECURSIVE ExpansionLoop(_, _, _, _)
ExpansionLoop(bl, buf, ro, i) ==
    IF i > Len(ro) THEN [blocks |-> bl, blockBuffer |-> buf]
    ELSE LET node == ro[i]
         IN  IF ~bl[node].visited
             THEN LET r == depthFirstSearchRec(bl, buf, node, bl[node].depth + 1)
                  IN  ExpansionLoop(r.blocks, r.blockBuffer, ro, i + 1)
             ELSE ExpansionLoop(bl, buf, ro, i + 1)

dfsWidthExpansion(bl, buf, ro, n) ==
    LET sorted == sortByDepth(bl, ro)
        r == ExpansionLoop(bl, buf, sorted, 1)
    IN  [blocks |-> [b \in DOMAIN bl |->
                        IF b >= n THEN r.blocks[b]
                        ELSE [r.blocks[b] EXCEPT
                                !.left = Rat(r.blocks[b].depth, r.blocks[b].pathDepth),
                                !.width = Rat(1, r.blocks[b].pathDepth)]],
         blockBuffer |-> r.blockBuffer,
         blocksReordered |-> sorted]

----------------------------------------------------------------------------
(* S5 and the end of an S6 iteration: detection of the fixed blocks.       *)

\* abs(x - y) < DOUBLE_EPS
Abuts(x, y) == NearZero(RSub(x, y))

RightOf(b) == RAdd(b.left, b.width)

RECURSIVE DFSFindFixedNumerical(_, _)
RECURSIVE FindFixedLoop(_, _, _, _)
DFSFindFixedNumerical(bl, start) ==
    LET bl1 == [bl EXCEPT ![start].visited = TRUE]
    IN  IF bl1[start].left = Zero
        THEN [blocks |-> [bl1 EXCEPT ![start].isFixed = TRUE], flag |-> TRUE]
        ELSE LET r == FindFixedLoop(bl1, start, 1, FALSE)
             IN  [blocks |-> [r.blocks EXCEPT ![start].isFixed = r.flag], flag |-> r.flag]

FindFixedLoop(bl, start, k, flag) ==
    IF k > Len(bl[start].cleftN) THEN [blocks |-> bl, flag |-> flag]
    ELSE LET adj == bl[start].cleftN[k]
         IN  IF Abuts(bl[start].left, RightOf(bl[adj]))
             THEN IF bl[adj].visited
                  THEN FindFixedLoop(bl, start, k + 1, bl[adj].isFixed \/ flag)
                  ELSE LET r == DFSFindFixedNumerical(bl, adj)
                       IN  FindFixedLoop(r.blocks, start, k + 1, r.flag \/ flag)
             ELSE FindFixedLoop(bl, start, k + 1, flag)

\* STEP 5: the loop over the blocks before the S6 loop
RECURSIVE FindInitiallyFixed(_, _, _)
FindInitiallyFixed(bl, n, b) ==
    IF b >= n THEN bl
    ELSE IF bl[b].visited THEN FindInitiallyFixed(bl, n, b + 1)
         ELSE IF Abuts(RightOf(bl[b]), One)
              THEN FindInitiallyFixed(DFSFindFixedNumerical(bl, b).blocks, n, b + 1)
              ELSE FindInitiallyFixed(bl, n, b + 1)

\* the second loop of an S6 iteration
RECURSIVE FindNewlyFixed(_, _, _)
FindNewlyFixed(bl, n, b) ==
    IF b >= n THEN bl
    ELSE IF bl[b].visited THEN FindNewlyFixed(bl, n, b + 1)
         ELSE IF Abuts(RightOf(bl[b]), One)
              THEN FindNewlyFixed(DFSFindFixedNumerical(bl, b).blocks, n, b + 1)
              ELSE IF \E k \in DOMAIN bl[b].rightN :
                          /\ bl[bl[b].rightN[k]].isFixed
                          /\ Abuts(RightOf(bl[b]), bl[bl[b].rightN[k]].left)
                   THEN FindNewlyFixed(DFSFindFixedNumerical(bl, b).blocks, n, b + 1)
                   ELSE FindNewlyFixed(bl, n, b + 1)

\* a count that clears visited instead of setting it to isFixed
getFixedCountClearingVisited(bl, n) ==
    [blocks |-> [b \in DOMAIN bl |->
                    IF b >= n THEN bl[b] ELSE [bl[b] EXCEPT !.visited = FALSE]],
     fixedCount |-> Cardinality({b \in 0 .. n - 1 : bl[b].isFixed})]

\* a count of the blocks visited by the detection instead of the fixed ones
getVisitedCount(bl, n) ==
    [blocks |-> [b \in DOMAIN bl |->
                    IF b >= n THEN bl[b] ELSE [bl[b] EXCEPT !.visited = bl[b].isFixed]],
     fixedCount |-> Cardinality({b \in 0 .. n - 1 : bl[b].visited})]

\* getFixedCount: the count, and the blocks with visited = isFixed
getFixedCount(bl, n) ==
    [blocks |-> [b \in DOMAIN bl |->
                    IF b >= n THEN bl[b] ELSE [bl[b] EXCEPT !.visited = bl[b].isFixed]],
     fixedCount |-> Cardinality({b \in 0 .. n - 1 : bl[b].isFixed})]

----------------------------------------------------------------------------
(* S6: the components of the blocks that are not fixed.                    *)

\* one of the two "for (auto node : ...)" loops of BFS
RECURSIVE BFSVisit(_, _, _, _, _)
BFSVisit(bl, buf, NC, adj, k) ==
    IF k > Len(adj) THEN [blocks |-> bl, blockBuffer |-> buf, NC |-> NC]
    ELSE IF ~bl[adj[k]].visited
         THEN BFSVisit([bl EXCEPT ![adj[k]].visited = TRUE],
                       [buf EXCEPT ![NC] = adj[k]], NC + 1, adj, k + 1)
         ELSE BFSVisit(bl, buf, NC, adj, k + 1)

RECURSIVE BFSLoop(_, _, _, _)
BFSLoop(bl, buf, qIdx, NC) ==
    IF qIdx >= NC THEN [blocks |-> bl, blockBuffer |-> buf, NC |-> NC]
    ELSE LET r1 == BFSVisit(bl, buf, NC, bl[buf[qIdx]].cleftN, 1)
             r2 == BFSVisit(r1.blocks, r1.blockBuffer, r1.NC, bl[buf[qIdx]].crightN, 1)
         IN  BFSLoop(r2.blocks, r2.blockBuffer, qIdx + 1, r2.NC)

BFS(bl, buf, start) ==
    BFSLoop([bl EXCEPT ![start].visited = TRUE], [buf EXCEPT ![0] = start], 0, 1)

----------------------------------------------------------------------------
(* The linear programs.  A program is the record of what buildLPModel1 and *)
(* buildLPModel2 hand to the solver for the component blockBuffer[0..NC-1]:*)
(* node i (1 .. NC) is blockBuffer[i-1]; lo[i] is the lower bound of its   *)
(* left column, hi[i] the upper bound of its row "li + wi <= minRight-     *)
(* Fixed", w[i] its current width, preds[i] the nodes j with a row         *)
(* "li >= lj + wj".                                                        *)

RMinSet(S) == CHOOSE x \in S : \A y \in S : RLe(x, y)
RMaxSet(S) == CHOOSE x \in S : \A y \in S : RLe(y, x)

RECURSIVE RSum(_)
RSum(s) == IF s = <<>> THEN Zero ELSE RAdd(s[1], RSum(Tail(s)))

FixedOf(bl, adj) == {adj[k] : k \in {k \in DOMAIN adj : bl[adj[k]].isFixed}}
FreeOf(bl, adj) == {adj[k] : k \in {k \in DOMAIN adj : ~bl[adj[k]].isFixed}}

\* maxLeftFixed and minRightFixed of a block
maxLeftFixed(bl, b) ==
    RMaxSet({Zero} \cup {RightOf(bl[v]) : v \in FixedOf(bl, bl[b].cleftN)})
minRightFixed(bl, b) ==
    RMinSet({One} \cup {bl[v].left : v \in FixedOf(bl, bl[b].crightN)})

\* the first loop of buildLPModel1: idxMap[idx] is the left column 2i+1
idxMapOfModel1(im, buf, NC) ==
    [x \in DOMAIN im |->
        IF \E i \in 0 .. NC - 1 : buf[i] = x
        THEN 2 * (CHOOSE i \in 0 .. NC - 1 : buf[i] = x) + 1
        ELSE im[x]]

\* the first loop of buildLPModel2: idxMap[idx] is the left column i+1
idxMapOfModel2(im, buf, NC) ==
    [x \in DOMAIN im |->
        IF \E i \in 0 .. NC - 1 : buf[i] = x
        THEN (CHOOSE i \in 0 .. NC - 1 : buf[i] = x) + 1
        ELSE im[x]]

\* the node whose left column idxMap names
NodeOfColumn(col, model) == IF model = 2 THEN col ELSE (col + 1) \div 2

Program(bl, buf, NC, im, model) ==
    [NC |-> NC,
     lo |-> [i \in 1 .. NC |-> maxLeftFixed(bl, buf[i - 1])],
     hi |-> [i \in 1 .. NC |-> minRightFixed(bl, buf[i - 1])],
     w |-> [i \in 1 .. NC |-> bl[buf[i - 1]].width],
     preds |-> [i \in 1 .. NC |->
                  {NodeOfColumn(im[bl[v].idx], model) :
                      v \in FreeOf(bl, bl[buf[i - 1]].cleftN)}]]

Succs(lp, i) == {j \in 1 .. lp.NC : i \in lp.preds[j]}

\* the chains of rows "li >= lj + wj": sequences of nodes, each a
\* predecessor of the next
RECURSIVE PathsFrom(_, _)
PathsFrom(lp, p) ==
    {p} \cup UNION {PathsFrom(lp, Append(p, c)) : c \in Succs(lp, p[Len(p)])}

Paths(lp) == UNION {PathsFrom(lp, <<i>>) : i \in 1 .. lp.NC}

\* room between the bounds at the two ends of a chain
Span(lp, p) == RSub(lp.hi[p[Len(p)]], lp.lo[p[1]])

WidthOver(W, p) == RSum([k \in DOMAIN p |-> W[p[k]]])

\* the widths W leave room for lefts that satisfy every row and bound
Feasible(lp, paths, W) ==
    \A p \in paths : RLe(WidthOver(W, p), Span(lp, p))

\* the two extreme choices of lefts for widths W
RECURSIVE Earliest(_, _, _)
Earliest(lp, W, i) ==
    RMaxSet({lp.lo[i]} \cup {RAdd(Earliest(lp, W, j), W[j]) : j \in lp.preds[i]})

RECURSIVE LatestEnd(_, _, _)
LatestEnd(lp, W, i) ==
    RMinSet({lp.hi[i]} \cup {RSub(LatestEnd(lp, W, c), W[c]) : c \in Succs(lp, i)})

Lefts(lp, W, which) ==
    [i \in 1 .. lp.NC |->
        IF which = "lower" THEN Earliest(lp, W, i)
        ELSE RSub(LatestEnd(lp, W, i), W[i])]

\* sequences are compared from the first node on
RECURSIVE SeqLess(_, _)
SeqLess(x, y) ==
    IF Len(x) = 0 THEN FALSE
    ELSE IF x[1] = y[1] THEN SeqLess(Tail(x), Tail(y)) ELSE RLt(x[1], y[1])

\* the solution the solver reports among several optimal ones
Reported(S, which) ==
    IF which = "lower" THEN CHOOSE x \in S : \A y \in S : ~SeqLess(y, x)
    ELSE CHOOSE x \in S : \A y \in S : ~SeqLess(x, y)

\* what is read from the columns when the solver found the program to have
\* no solution: the columns at a bound, or the row "li + wi <= hi" tight
Unsolved(lp, model, which) ==
    [left |-> lp.lo,
     width |-> [i \in 1 .. lp.NC |->
                  IF model = 2 THEN (IF which = "lower" THEN Zero ELSE One)
                  ELSE IF which = "lower" THEN lp.w[i]
                       ELSE RSub(lp.hi[i], lp.lo[i])],
     status |-> "nofeas"]

----------------------------------------------------------------------------
(* LP model 2: one width for the whole component, as large as possible.    *)

\* the optimum of "argmax(w)" with 0 <= w <= 1
CommonWidth(lp, paths) ==
    RMinSet({One} \cup {RDivInt(Span(lp, p), Len(p)) : p \in paths})

SolveModel2(lp, which) ==
    LET paths == Paths(lp)
        width == CommonWidth(lp, paths)
        W == [i \in 1 .. lp.NC |-> width]
    IN  IF RLt(width, Zero) THEN Unsolved(lp, 2, which)
        ELSE [left |-> Lefts(lp, W, which), width |-> W, status |-> "opt"]

----------------------------------------------------------------------------
(* LP model 1: the largest sum of widths, then the least absolute          *)
(* deviation from the mean width among the solutions with that sum.        *)

\* what a chain leaves to grow when its nodes keep their widths
Slack(lp, p) == RSub(Span(lp, p), WidthOver(lp.w, p))

\* the least total slack of chains that cover the nodes U: the growth of
\* the sum of widths
RECURSIVE MinCover(_, _, _)
MinCover(lp, paths, U) ==
    IF U = {} THEN Zero
    ELSE LET b == CHOOSE x \in U : \A y \in U : x <= y
         IN  RMinSet({RAdd(Slack(lp, p), MinCover(lp, paths, U \ Range(p))) :
                         p \in {q \in paths : b \in Range(q)}})

\* sumWidth of the first glp_simplex
MaxSumWidth(lp, paths) ==
    RAdd(RSum([i \in 1 .. lp.NC |-> lp.w[i]]), MinCover(lp, paths, 1 .. lp.NC))

\* widths a node can have in a basic solution: its bound, the mean, or what
\* a tight chain leaves when the other nodes are at their bound or the mean
BaseWidths(lp, mean, i) ==
    {lp.w[i]} \cup (IF RLe(lp.w[i], mean) THEN {mean} ELSE {})

RECURSIVE SumsOver(_, _, _)
SumsOver(lp, mean, s) ==
    IF s = <<>> THEN {Zero}
    ELSE {RAdd(x, r) : x \in BaseWidths(lp, mean, s[1]),
                       r \in SumsOver(lp, mean, Tail(s))}

Others(p, i) == SelectSeq(p, LAMBDA x : x # i)

NodeWidths(lp, paths, mean, i) ==
    BaseWidths(lp, mean, i) \cup
    {v \in UNION {{RSub(Span(lp, p), r) : r \in SumsOver(lp, mean, Others(p, i))} :
                     p \in {q \in paths : i \in Range(q)}} :
        RLe(lp.w[i], v)}

RECURSIVE WidthVectors(_, _)
WidthVectors(cands, i) ==
    IF i > Len(cands) THEN {<<>>}
    ELSE {<<x>> \o r : x \in cands[i], r \in WidthVectors(cands, i + 1)}

Deviation(W, mean) == RSum([i \in DOMAIN W |-> RAbs(RSub(W[i], mean))])

SolveModel1(lp, which) ==
    LET paths == Paths(lp)
    IN  IF ~Feasible(lp, paths, lp.w) THEN Unsolved(lp, 1, which)
        ELSE LET sumWidth == MaxSumWidth(lp, paths)
                 meanWidth == RDivInt(sumWidth, lp.NC)
                 cands == [i \in 1 .. lp.NC |-> NodeWidths(lp, paths, meanWidth, i)]
                 best == {W \in WidthVectors(cands, 1) :
                             RSum(W) = sumWidth /\ Feasible(lp, paths, W)}
                 least == RMinSet({Deviation(W, meanWidth) : W \in best})
                 W == Reported({V \in best : Deviation(V, meanWidth) = least}, which)
             IN  [left |-> Lefts(lp, W, which), width |-> W, status |-> "opt"]

\* the write-back loop of buildLPModel1 and buildLPModel2
WriteBack(bl, buf, NC, sol) ==
    [b \in DOMAIN bl |->
        IF \E i \in 0 .. NC - 1 : buf[i] = b
        THEN LET i == CHOOSE i \in 0 .. NC - 1 : buf[i] = b
             IN  [bl[b] EXCEPT !.left = sol.left[i + 1], !.width = sol.width[i + 1]]
        ELSE bl[b]]

buildLPModel1(bl, buf, NC, im, which) ==
    LET im1 == idxMapOfModel1(im, buf, NC)
        sol == SolveModel1(Program(bl, buf, NC, im1, 1), which)
    IN  [blocks |-> WriteBack(bl, buf, NC, sol), idxMap |-> im1]

buildLPModel2(bl, buf, NC, im, which) ==
    LET im1 == idxMapOfModel2(im, buf, NC)
        sol == SolveModel2(Program(bl, buf, NC, im1, 2), which)
    IN  [blocks |-> WriteBack(bl, buf, NC, sol), idxMap |-> im1]

----------------------------------------------------------------------------
(* The MILP alternative.  Every bound of the program is a multiple of      *)
(* 1/total, so its basic solutions put each left on the grid k/total.      *)

\* the pairs the two nested loops of buildMILPModel give a binary variable
ScanPairs(bl, ro, tolerance) ==
    {<<ro[q[1]], ro[q[2]]>> :
        q \in {q \in (DOMAIN ro) \X (DOMAIN ro) :
                /\ q[1] < q[2]
                /\ \A k \in q[1] + 1 .. q[2] :
                      ~(bl[ro[k]].startMin + tolerance >= bl[ro[q[1]]].endMin)}}

Paired(pairs, b) ==
    {q[1] : q \in {q \in pairs : q[2] = b}} \cup {q[2] : q \in {q \in pairs : q[1] = b}}

\* the width of block b when the lefts are L (in units of 1/total)
GridWidth(L, pairs, tot, b) ==
    LET stops == {tot} \cup {L[c + 1] : c \in {c \in Paired(pairs, b) : L[c + 1] > L[b + 1]}}
    IN  (CHOOSE x \in stops : \A y \in stops : x <= y) - L[b + 1]

RECURSIVE IntSum(_)
IntSum(s) == IF s = <<>> THEN 0 ELSE s[1] + IntSum(Tail(s))

GridSum(L, pairs, tot) ==
    IntSum([i \in DOMAIN L |-> GridWidth(L, pairs, tot, i - 1)])

buildMILPModel(bl, ro, n, tot, tolerance, which) ==
    LET pairs == ScanPairs(bl, ro, tolerance)
        grid == {L \in [1 .. n -> 0 .. tot - 1] :
                    \A q \in pairs : L[q[1] + 1] # L[q[2] + 1]}
    IN  IF grid = {}
        THEN \* no solution: glp_mip_col_val gives what glp_add_cols stored
             [b \in DOMAIN bl |->
                IF b >= n THEN bl[b] ELSE [bl[b] EXCEPT !.left = Zero, !.width = Zero]]
        ELSE LET most == CHOOSE x \in {GridSum(L, pairs, tot) : L \in grid} :
                            \A L \in grid : GridSum(L, pairs, tot) <= x
                 L == Reported({[i \in 1 .. n |-> <<K[i], tot>>] :
                                   K \in {K \in grid : GridSum(K, pairs, tot) = most}},
                               which)
                 K == [i \in 1 .. n |-> L[i][1]]
             IN  [b \in DOMAIN bl |->
                    IF b >= n THEN bl[b]
                    ELSE [bl[b] EXCEPT !.left = Rat(K[b + 1], tot),
                                       !.width = Rat(GridWidth(K, pairs, tot, b), tot)]]

----------------------------------------------------------------------------
(* computeResult.                                                          *)

Hundred == <<100, 1>>

RECURSIVE computeResult(_, _, _, _)
computeResult(bl, n, sum, sumSq) ==
    IF n = 0 THEN [r_sum |-> sum, r_sumSq |-> sumSq]
    ELSE LET r == computeResult(bl, n - 1, sum, sumSq)
             w == RMul(bl[n - 1].width, Hundred)
         IN  [r_sum |-> RAdd(r.r_sum, w), r_sumSq |-> RAdd(r.r_sumSq, RMul(w, w))]

----------------------------------------------------------------------------
(* The exported calls and the stages of compute.                           *)

\* the option globals before any setOptions
DefaultOpts ==
    [isTolerance |-> 0, ISMethod |-> 1, applyDFS |-> 1, dfsTolerance |-> 0,
     LPIters |-> 100, LPModel |-> 3, MILP |-> 0]

Init ==
    /\ pc = "init"
    /\ opts = DefaultOpts
    /\ N = 0
    /\ maxN = 0
    /\ blocks = [i \in {} |-> NewBlock]
    /\ blocksReordered = <<>>
    /\ blockBuffer = [i \in {} |-> JunkInt]
    /\ idxMap = [i \in {} |-> JunkInt]
    /\ matrix = [i \in {} |-> FALSE]
    /\ total = 0
    /\ prevFixedCount = 0
    /\ iter = 0
    /\ r_sum = Zero
    /\ r_sumSq = Zero
    /\ arr = <<>>
    /\ ran = 0
    /\ solver \in {"lower", "upper"}
    /\ calls = <<>>

\* setOptions also initialises parm, which every solver call needs: the
\* host calls it before the first compute
setOptions(isTol, ism, dfs, dfsTol, iters, lpm, milp) ==
    /\ pc \in {"init", "idle", "returned"}
    /\ opts' = [isTolerance |-> isTol, ISMethod |-> ism, applyDFS |-> dfs,
                dfsTolerance |-> dfsTol, LPIters |-> iters, LPModel |-> lpm,
                MILP |-> milp]
    /\ pc' = IF pc = "init" THEN "idle" ELSE pc
    /\ UNCHANGED <<N, maxN, blocks, blocksReordered, blockBuffer, idxMap,
                   matrix, total, prevFixedCount, iter, r_sum, r_sumSq, arr,
                   ran, solver, calls>>

\* the (left, width) of the blocks of the array compute returns
Result == [i \in 1 .. N |-> [left |-> blocks[i - 1].left, width |-> blocks[i - 1].width]]

\* a setup loop that leaves isFixed as the call before left it
InitializeBlockKeepingFixed(block, input, i) ==
    [block EXCEPT !.visited = FALSE,
                  !.startMin = input.startMin,
                  !.endMin = input.endMin,
                  !.duration = Int16(input.endMin - input.startMin),
                  !.idx = i, !.depth = 0,
                  !.leftN = <<>>, !.rightN = <<>>,
                  !.cleftN = <<>>, !.crightN = <<>>]

\* the body of the loop "initialize each block" of the setup
InitializeBlock(block, input, i) ==
    [block EXCEPT !.isFixed = FALSE, !.visited = FALSE,
                  !.startMin = input.startMin,
                  !.endMin = input.endMin,
                  !.duration = Int16(input.endMin - input.startMin),
                  !.idx = i, !.depth = 0,
                  !.leftN = <<>>, !.rightN = <<>>,
                  !.cleftN = <<>>, !.crightN = <<>>]

\* the setup part of compute(arr, _N), with _N = Len(a)
computeSetup(a) ==
    /\ pc \in {"idle", "returned"}
    /\ LET n == Len(a)
           cap == IF n > maxN THEN n ELSE maxN
           grown == [i \in 0 .. cap - 1 |-> IF i < maxN THEN blocks[i] ELSE NewBlock]
       IN  /\ N' = n
           /\ maxN' = cap
           /\ blocks' = [i \in 0 .. cap - 1 |->
                  IF i >= n THEN grown[i]
                  ELSE InitializeBlock(grown[i], a[i + 1], i)]
           /\ blocksReordered' = [i \in 1 .. n |-> i - 1]
           /\ blockBuffer' = [i \in 0 .. cap - 1 |->
                  IF i < maxN THEN blockBuffer[i] ELSE JunkInt]
           /\ idxMap' = [i \in 0 .. cap - 1 |->
                  IF i < maxN THEN idxMap[i] ELSE JunkInt]
           /\ matrix' = [i \in 0 .. cap * cap - 1 |->
                  IF i < n * n THEN FALSE
                  ELSE IF i < maxN * maxN THEN matrix[i] ELSE FALSE]
    /\ r_sum' = Zero
    /\ r_sumSq' = Zero
    /\ arr' = a
    /\ ran' = 0
    /\ calls' = IF pc = "returned"
                THEN Append(calls, [arr |-> arr, opts |-> opts, result |-> Result])
                ELSE calls
    /\ pc' = "S1"
    /\ UNCHANGED <<opts, total, prevFixedCount, iter, solver>>

\* STEP 1
Step1 ==
    /\ pc = "S1"
    /\ LET ro == sortByStartTime(blocks, blocksReordered)
       IN  /\ blocksReordered' = ro
           /\ IF opts.ISMethod = 1
              THEN LET r == intervalScheduling(blocks, ro, blockBuffer, opts.isTolerance)
                   IN  /\ blocks' = r.blocks
                       /\ blockBuffer' = r.blockBuffer
                       /\ total' = r.total
              ELSE LET r == intervalScheduling2(blocks, ro, opts.isTolerance)
                   IN  /\ blocks' = r.blocks
                       /\ blockBuffer' = blockBuffer
                       /\ total' = r.total
    /\ pc' = "afterS1"
    /\ UNCHANGED <<opts, N, maxN, idxMap, matrix, prevFixedCount, iter,
                   r_sum, r_sumSq, arr, ran, solver, calls>>

\* STEP 2
Step2 ==
    /\ pc = "afterS1"
    /\ opts.MILP = 0
    /\ total > 1
    /\ LET r == constructAdjList(blocks, matrix, blocksReordered, N, opts.dfsTolerance)
       IN  /\ blocks' = r.blocks
           /\ matrix' = r.matrix
    /\ pc' = "S3"
    /\ UNCHANGED <<opts, N, maxN, blocksReordered, blockBuffer, idxMap, total,
                   prevFixedCount, iter, r_sum, r_sumSq, arr, ran, solver, calls>>

\* STEP 3
Step3 ==
    /\ pc = "S3"
    /\ blocks' = condenseAdjList(blocks, matrix, N)
    /\ pc' = "S4"
    /\ UNCHANGED <<opts, N, maxN, blocksReordered, blockBuffer, idxMap, matrix,
                   total, prevFixedCount, iter, r_sum, r_sumSq, arr, ran, solver, calls>>

\* "if (MILP)": buildMILPModel, computeResult, return
SolveMILP ==
    /\ pc = "afterS1"
    /\ opts.MILP # 0
    /\ LET bl == buildMILPModel(blocks, blocksReordered, N, total,
                                opts.dfsTolerance, solver)
           r == computeResult(bl, N, r_sum, r_sumSq)
       IN  /\ blocks' = bl
           /\ r_sum' = r.r_sum
           /\ r_sumSq' = r.r_sumSq
    /\ pc' = "returned"
    /\ UNCHANGED <<opts, N, maxN, blocksReordered, blockBuffer, idxMap, matrix,
                   total, prevFixedCount, iter, arr, ran, solver, calls>>

\* "if (total <= 1)": computeInitialWidth, computeResult, return
SingleColumn ==
    /\ pc = "afterS1"
    /\ opts.MILP = 0
    /\ total <= 1
    /\ LET bl == computeInitialWidth(blocks, N, total)
           r == computeResult(bl, N, r_sum, r_sumSq)
       IN  /\ blocks' = bl
           /\ r_sum' = r.r_sum
           /\ r_sumSq' = r.r_sumSq
    /\ pc' = "returned"
    /\ UNCHANGED <<opts, N, maxN, blocksReordered, blockBuffer, idxMap, matrix,
                   total, prevFixedCount, iter, arr, ran, solver, calls>>

\* STEP 4
Step4 ==
    /\ pc = "S4"
    /\ IF opts.applyDFS # 0
       THEN LET r == dfsWidthExpansion(blocks, blockBuffer, blocksReordered, N)
            IN  /\ blocks' = [b \in DOMAIN blocks |->
                                IF b >= N THEN r.blocks[b]
                                ELSE [r.blocks[b] EXCEPT !.visited = FALSE]]
                /\ blockBuffer' = r.blockBuffer
                /\ blocksReordered' = r.blocksReordered
       ELSE /\ blocks' = computeInitialWidth(blocks, N, total)
            /\ UNCHANGED <<blockBuffer, blocksReordered>>
    /\ pc' = "S5"
    /\ UNCHANGED <<opts, N, maxN, idxMap, matrix, total, prevFixedCount, iter,
                   r_sum, r_sumSq, arr, ran, solver, calls>>

\* STEP 5, up to the head of the S6 loop
Step5 ==
    /\ pc = "S5"
    /\ LET r == getFixedCount(FindInitiallyFixed(blocks, N, 0), N)
       IN  /\ blocks' = r.blocks
           /\ prevFixedCount' = r.fixedCount
    /\ iter' = 0
    /\ pc' = "S6"
    /\ UNCHANGED <<opts, N, maxN, blocksReordered, blockBuffer, idxMap, matrix,
                   total, r_sum, r_sumSq, arr, ran, solver, calls>>

\* the next block the first loop of an S6 iteration finds not visited
Unvisited == {b \in 0 .. N - 1 : ~blocks[b].visited}
NextStart == CHOOSE b \in Unvisited : \A c \in Unvisited : b <= c

\* one pass of the body of the first loop of an S6 iteration:
\* buildLPModel(BFS(block))
SolveComponent ==
    /\ pc = "S6"
    /\ iter < opts.LPIters
    /\ Unvisited # {}
    /\ LET c == BFS(blocks, blockBuffer, NextStart)
           r == IF opts.LPModel = 2
                THEN buildLPModel2(c.blocks, c.blockBuffer, c.NC, idxMap, solver)
                ELSE buildLPModel1(c.blocks, c.blockBuffer, c.NC, idxMap, solver)
       IN  /\ blocks' = r.blocks
           /\ blockBuffer' = c.blockBuffer
           /\ idxMap' = r.idxMap
    /\ UNCHANGED <<pc, opts, N, maxN, blocksReordered, matrix, total,
                   prevFixedCount, iter, r_sum, r_sumSq, arr, ran, solver, calls>>

\* the rest of an S6 iteration; on "break" computeResult and return
EndIteration ==
    /\ pc = "S6"
    /\ iter < opts.LPIters
    /\ Unvisited = {}
    /\ LET reset == [b \in DOMAIN blocks |->
                        IF b >= N THEN blocks[b]
                        ELSE [blocks[b] EXCEPT !.visited = blocks[b].isFixed]]
           r == getFixedCount(FindNewlyFixed(reset, N, 0), N)
       IN  /\ blocks' = r.blocks
           /\ ran' = ran + 1
           /\ IF r.fixedCount = prevFixedCount
              THEN LET res == computeResult(r.blocks, N, r_sum, r_sumSq)
                   IN  /\ r_sum' = res.r_sum
                       /\ r_sumSq' = res.r_sumSq
                       /\ pc' = "returned"
                       /\ UNCHANGED <<prevFixedCount, iter>>
              ELSE /\ prevFixedCount' = r.fixedCount
                   /\ iter' = iter + 1
                   /\ UNCHANGED <<pc, r_sum, r_sumSq>>
    /\ UNCHANGED <<opts, N, maxN, blocksReordered, blockBuffer, idxMap, matrix,
                   total, arr, solver, calls>>

\* the loop condition "i < LPIters" fails: computeResult and return
LoopExit ==
    /\ pc = "S6"
    /\ iter >= opts.LPIters
    /\ LET res == computeResult(blocks, N, r_sum, r_sumSq)
       IN  /\ r_sum' = res.r_sum
           /\ r_sumSq' = res.r_sumSq
    /\ pc' = "returned"
    /\ UNCHANGED <<opts, N, maxN, blocks, blocksReordered, blockBuffer, idxMap,
                   matrix, total, prevFixedCount, iter, arr, ran, solver, calls>>

----------------------------------------------------------------------------
(* The arguments the model feeds to the exported calls.                    *)

Tolerances == {0, MaxTol}

\* arrays of 1 .. n Input structs with 0 <= startMin < endMin <= t
Intervals(t) == {iv \in [startMin : 0 .. t, endMin : 0 .. t] : iv.startMin < iv.endMin}
Inputs(n, t) == UNION {[1 .. k -> Intervals(t)] : k \in 1 .. n}

----------------------------------------------------------------------------
(* SpecGraph: one compute call up to the end of S3, for every interval     *)
(* scheduling method and every pair of tolerances.                         *)

GraphSetOptions ==
    /\ pc = "init"
    /\ \E isTol \in Tolerances, ism \in {1, 2}, dfsTol \in Tolerances :
          setOptions(isTol, ism, DefaultOpts.applyDFS, dfsTol,
                     DefaultOpts.LPIters, DefaultOpts.LPModel, 0)

GraphCompute ==
    /\ pc = "idle"
    /\ \E a \in Inputs(MaxN, MaxT) : computeSetup(a)

NextGraph == GraphSetOptions \/ GraphCompute \/ Step1 \/ Step2 \/ Step3

SpecGraph == Init /\ [][NextGraph]_vars

----------------------------------------------------------------------------
(* Vocabulary of the properties.                                           *)

Live == 0 .. N - 1

Max2(x, y) == IF x < y THEN y ELSE x
Min2(x, y) == IF y < x THEN y ELSE x

\* two blocks conflict: their time ranges overlap by more than tol
Conflict(a, b, tol) ==
    Max2(a.startMin, b.startMin) + tol < Min2(a.endMin, b.endMin)

PairwiseConflicting(S, tol) ==
    \A x \in S : \A y \in S : x # y => Conflict(blocks[x], blocks[y], tol)

\* the size of the largest set of pairwise conflicting blocks
MaxCliqueSize(tol) ==
    CHOOSE k \in 0 .. N :
        /\ \E S \in SUBSET Live : Cardinality(S) = k /\ PairwiseConflicting(S, tol)
        /\ \A S \in SUBSET Live : PairwiseConflicting(S, tol) => Cardinality(S) <= k

\* the blocks as S1 finds them, and the total each method returns for them
BeforeS1 == [b \in DOMAIN blocks |-> IF b < N THEN [blocks[b] EXCEPT !.depth = 0] ELSE blocks[b]]
TotalOfMethod1 ==
    intervalScheduling(BeforeS1, sortByStartTime(BeforeS1, blocksReordered),
                       blockBuffer, opts.isTolerance).total
TotalOfMethod2 ==
    intervalScheduling2(BeforeS1, sortByStartTime(BeforeS1, blocksReordered),
                        opts.isTolerance).total

\* position of block b in blocksReordered
Pos(b) == CHOOSE i \in DOMAIN blocksReordered : blocksReordered[i] = b

\* the pair {a, j} overlaps as the scan of S2 sees it: the block that is
\* later in start order starts more than dfsTolerance before the other ends
Scanned(a, j) ==
    /\ a # j
    /\ LET e == IF Pos(a) < Pos(j) THEN a ELSE j
           l == IF Pos(a) < Pos(j) THEN j ELSE a
       IN  blocks[l].startMin + opts.dfsTolerance < blocks[e].endMin

\* blocks reachable from b by one or more cleftN edges
RECURSIVE ReachLeft(_, _)
ReachLeft(S, k) ==
    IF k = 0 THEN S
    ELSE ReachLeft(S \cup UNION {Range(blocks[v].cleftN) : v \in S}, k - 1)

ClosureOfCleftN(b) == ReachLeft(Range(blocks[b].cleftN), N)

----------------------------------------------------------------------------
(* Properties of S1 - S3.                                                  *)

\* C3: after S1 the returned total equals the size of the largest set of
\* pairwise conflicting blocks, and both methods return the same total.
C3_TotalIsMaxClique ==
    pc = "afterS1" =>
        /\ total = MaxCliqueSize(opts.dfsTolerance)
        /\ TotalOfMethod1 = TotalOfMethod2

\* C7: after S1, whatever the method and the tolerances, two conflicting
\* blocks have different depths.
C7_ConflictingDepthsDiffer ==
    pc = "afterS1" =>
        \A a \in Live : \A b \in Live :
            (a # b /\ Conflict(blocks[a], blocks[b], opts.dfsTolerance))
                => blocks[a].depth # blocks[b].depth

\* C8 as stated: after S2, j in a.leftN <=> a in j.rightN <=> matrix[a.idx*N + j.idx]
\* <=> (j.depth < a.depth and a, j conflict).
C8_AsStated ==
    pc = "S3" =>
        \A a \in Live : \A j \in Live :
            LET rhs == /\ blocks[j].depth < blocks[a].depth
                       /\ a # j
                       /\ Conflict(blocks[a], blocks[j], opts.dfsTolerance)
            IN  /\ (j \in Range(blocks[a].leftN)) <=> rhs
                /\ (a \in Range(blocks[j].rightN)) <=> rhs
                /\ matrix[blocks[a].idx * N + blocks[j].idx] <=> rhs

\* C8 (amended): after S2, j in a.leftN <=> a in j.rightN <=> matrix[a.idx*N + j.idx]
\* <=> the scan pairs a and j (the later one in start order starts more than
\* dfsTolerance before the earlier one ends) and j.depth < a.depth, or the
\* depths are equal and a comes first in start order.
C8_AdjacencyOfScan ==
    pc = "S3" =>
        \A a \in Live : \A j \in Live :
            LET rhs == /\ Scanned(a, j)
                       /\ \/ blocks[j].depth < blocks[a].depth
                          \/ /\ blocks[j].depth = blocks[a].depth
                             /\ Pos(a) < Pos(j)
            IN  /\ (j \in Range(blocks[a].leftN)) <=> rhs
                /\ (a \in Range(blocks[j].rightN)) <=> rhs
                /\ matrix[blocks[a].idx * N + blocks[j].idx] <=> rhs

\* S2 recorded a pair of blocks that do not conflict
C8_Witness ==
    /\ pc = "S3"
    /\ \E a \in Live : \E j \in Live :
          /\ j \in Range(blocks[a].leftN)
          /\ blocks[j].depth < blocks[a].depth
          /\ ~Conflict(blocks[a], blocks[j], opts.dfsTolerance)

\* C9 as stated: after S3, cleftN(b) is a subset of leftN(b) and the blocks
\* reachable from b over cleftN edges are exactly leftN(b).
C9_AsStated ==
    pc = "S4" =>
        \A b \in Live :
            /\ Range(blocks[b].cleftN) \subseteq Range(blocks[b].leftN)
            /\ ClosureOfCleftN(b) = Range(blocks[b].leftN)

\* C9 (amended): after S3, cleftN(b) is a subset of leftN(b) and every block
\* of leftN(b) is reachable from b over cleftN edges; the reachable set may
\* hold further blocks, which are to the left of a block of leftN(b) but do
\* not conflict with b.
C9_ClosureCoversLeftN ==
    pc = "S4" =>
        \A b \in Live :
            /\ Range(blocks[b].cleftN) \subseteq Range(blocks[b].leftN)
            /\ Range(blocks[b].leftN) \subseteq ClosureOfCleftN(b)

\* S3 dropped a block from some cleftN, and its closure is larger than leftN
C9_Witness ==
    /\ pc = "S4"
    /\ \E b \in Live : Range(blocks[b].cleftN) # Range(blocks[b].leftN)
    /\ \E b \in Live : ClosureOfCleftN(b) # Range(blocks[b].leftN)

----------------------------------------------------------------------------
(* Spec: one compute call, for every setting of the options.               *)

\* blocks per compute call and the largest endMin when the whole of
\* compute is explored
LayoutN == 4
LayoutT == 2
\* the value of LPIters that cuts the S6 loop short, next to the default
FewIters == 1

OneSetOptions ==
    /\ pc = "init"
    /\ \E isTol \in Tolerances, ism \in {1, 2}, dfsTol \in Tolerances :
          \/ \E dfs \in {0, 1}, iters \in {FewIters, DefaultOpts.LPIters}, lpm \in {1, 2} :
                setOptions(isTol, ism, dfs, dfsTol, iters, lpm, 0)
          \/ setOptions(isTol, ism, DefaultOpts.applyDFS, dfsTol,
                        DefaultOpts.LPIters, DefaultOpts.LPModel, 1)

OneCompute ==
    /\ pc = "idle"
    /\ \E a \in Inputs(LayoutN, LayoutT) : computeSetup(a)

Next ==
    \/ OneSetOptions
    \/ OneCompute
    \/ Step1
    \/ SolveMILP
    \/ SingleColumn
    \/ Step2
    \/ Step3
    \/ Step4
    \/ Step5
    \/ SolveComponent
    \/ EndIteration
    \/ LoopExit

Spec == Init /\ [][Next]_vars

----------------------------------------------------------------------------
(* Properties of the layout.                                               *)

\* the layouts compute goes through from one refinement to the next: the
\* seed of S4, the layout at the head of an S6 iteration, the returned one
AtLayout ==
    \/ pc = "S5"
    \/ pc = "returned"
    \/ pc = "S6" /\ \A b \in Live : blocks[b].visited = blocks[b].isFixed

\* [a.left, a.left + a.width] and [b.left, b.left + b.width] do not overlap
Apart(a, b) ==
    \/ LeEps(RightOf(a), b.left)
    \/ LeEps(RightOf(b), a.left)

\* C1: in the seed layout, after every S6 iteration and in the returned
\* array, two conflicting blocks have horizontal intervals that do not
\* overlap (up to DOUBLE_EPS).
C1_ConflictingBlocksApart ==
    AtLayout =>
        \A a \in Live : \A b \in Live :
            (a # b /\ Conflict(blocks[a], blocks[b], opts.dfsTolerance))
                => Apart(blocks[a], blocks[b])

\* C2: every returned block has 0 <= left and left + width <= 1 + DOUBLE_EPS,
\* on each path through compute.
C2_InsideUnitInterval ==
    pc = "returned" =>
        \A b \in Live :
            /\ RLe(Zero, blocks[b].left)
            /\ LeEps(RightOf(blocks[b]), One)

\* the component the next pass of the S6 loop solves, and what the solver
\* answers for it
NextComponent == BFS(blocks, blockBuffer, NextStart)
NextSolution ==
    LET c == NextComponent
    IN  IF opts.LPModel = 2
        THEN SolveModel2(Program(c.blocks, c.blockBuffer, c.NC,
                                 idxMapOfModel2(idxMap, c.blockBuffer, c.NC), 2), solver)
        ELSE SolveModel1(Program(c.blocks, c.blockBuffer, c.NC,
                                 idxMapOfModel1(idxMap, c.blockBuffer, c.NC), 1), solver)
Solving == pc = "S6" /\ iter < opts.LPIters /\ Unvisited # {}

\* C5: no step of the S6 loop, with LPModel 1 or 2, makes the width of a
\* block smaller than it was.
C5_WidthsNeverDecrease ==
    [][pc = "S6" => \A b \in Live : RLe(blocks[b].width, blocks'[b].width)]_vars

\* C6: when the solver reports that the program of a component has no
\* solution, the left and width of every block of the component stay as
\* they were before the solve.
C6_FailedSolveKeepsLayout ==
    [][(Solving /\ NextSolution.status = "nofeas") =>
          \A i \in 0 .. NextComponent.NC - 1 :
              LET b == NextComponent.blockBuffer[i]
              IN  /\ blocks'[b].left = blocks[b].left
                  /\ blocks'[b].width = blocks[b].width]_vars

\* the number of fixed blocks
FixedCount == Cardinality({b \in Live : blocks[b].isFixed})

\* C10: the S6 loop terminates: it runs at most LPIters and at most N + 1
\* iterations, and within an iteration every pass over a component leaves
\* fewer blocks to visit; the number of fixed blocks never decreases; an
\* iteration returns exactly when it leaves that number as it was before
\* the iteration.
C10_LoopTerminates ==
    /\ [](/\ ran <= opts.LPIters
          /\ ran <= N + 1
          /\ pc = "S6" => prevFixedCount = FixedCount)
    /\ [][(pc = "S6" /\ ran' = ran + 1) =>
             /\ FixedCount' >= FixedCount
             /\ (pc' = "returned") <=> (FixedCount' = FixedCount)]_vars
    /\ [][(pc = "S6" /\ pc' = "S6" /\ ran' = ran) =>
             Cardinality(Unvisited') < Cardinality(Unvisited)]_vars

\* a call returned after an iteration that fixed further blocks and one
\* that fixed none, well before LPIters
C10_Witness ==
    /\ pc = "returned"
    /\ ran >= 2
    /\ ran < opts.LPIters

----------------------------------------------------------------------------
(* SpecReuse: compute(A), compute(B) with another number of blocks, and    *)
(* compute(A) again, under options that are set once.                      *)

ReuseN == 3
ReuseT == 2

ReuseSetOptions ==
    /\ pc = "init"
    /\ \E isTol \in Tolerances :
          \/ \E ism \in {1, 2}, dfs \in {0, 1}, dfsTol \in Tolerances, lpm \in {1, 2} :
                setOptions(isTol, ism, dfs, dfsTol, DefaultOpts.LPIters, lpm, 0)
          \/ setOptions(isTol, DefaultOpts.ISMethod, DefaultOpts.applyDFS,
                        DefaultOpts.dfsTolerance, FewIters, DefaultOpts.LPModel, 0)
          \/ setOptions(isTol, DefaultOpts.ISMethod, DefaultOpts.applyDFS,
                        DefaultOpts.dfsTolerance, DefaultOpts.LPIters,
                        DefaultOpts.LPModel, 1)

FirstCompute ==
    /\ pc = "idle"
    /\ \E a \in Inputs(ReuseN, ReuseT) : computeSetup(a)

OtherCompute ==
    /\ pc = "returned"
    /\ calls = <<>>
    /\ \E a \in Inputs(ReuseN, ReuseT) : Len(a) # N /\ computeSetup(a)

SameCompute ==
    /\ pc = "returned"
    /\ Len(calls) = 1
    /\ computeSetup(calls[1].arr)

NextReuse ==
    \/ ReuseSetOptions
    \/ FirstCompute
    \/ OtherCompute
    \/ SameCompute
    \/ Step1
    \/ SolveMILP
    \/ SingleColumn
    \/ Step2
    \/ Step3
    \/ Step4
    \/ Step5
    \/ SolveComponent
    \/ EndIteration
    \/ LoopExit

SpecReuse == Init /\ [][NextReuse]_vars

\* C4: a compute call returns the (left, width) that every earlier call
\* with the same argument and the same options returned, whatever calls
\* with another number of blocks came in between; and the setup leaves no
\* flag, depth, adjacency list, matrix entry or sum of an earlier call.
C4_ResultDependsOnInputOnly ==
    /\ pc = "returned" =>
          \A k \in DOMAIN calls :
              (calls[k].arr = arr /\ calls[k].opts = opts) => calls[k].result = Result
    /\ pc = "S1" =>
          /\ \A b \in Live :
                /\ ~blocks[b].isFixed /\ ~blocks[b].visited
                /\ blocks[b].depth = 0 /\ blocks[b].idx = b
                /\ blocks[b].leftN = <<>> /\ blocks[b].rightN = <<>>
                /\ blocks[b].cleftN = <<>> /\ blocks[b].crightN = <<>>
          /\ \A i \in 0 .. N * N - 1 : ~matrix[i]
          /\ r_sum = Zero /\ r_sumSq = Zero

\* the third call returned for the argument of the first, after a call with
\* more blocks that ran the S6 loop and left another layout behind
C4_Witness ==
    /\ pc = "returned"
    /\ Len(calls) = 2
    /\ calls[1].arr = arr
    /\ Len(calls[2].arr) > N
    /\ ran >= 1
    /\ \E i \in 1 .. N : calls[2].result[i] # Result[i]

----------------------------------------------------------------------------
(* Properties of the fixed blocks.                                         *)

\* the fixed blocks of bl are fixed in nx, with the same left and width
FixedKept(bl, nx) ==
    \A b \in Live :
        bl[b].isFixed =>
            /\ nx[b].isFixed
            /\ nx[b].left = bl[b].left
            /\ nx[b].width = bl[b].width

\* FixedKept over every single pass of the loop of STEP 5 (first = TRUE) or
\* of the second loop of an S6 iteration, from block b on
RECURSIVE DetectionKeepsFixed(_, _, _)
DetectionKeepsFixed(bl, b, first) ==
    IF b >= N THEN TRUE
    ELSE LET nx == IF first THEN FindInitiallyFixed(bl, b + 1, b)
                   ELSE FindNewlyFixed(bl, b + 1, b)
         IN  FixedKept(bl, nx) /\ DetectionKeepsFixed(nx, b + 1, first)

\* the blocks as the second loop of an S6 iteration finds them
AfterVisitedReset ==
    [b \in DOMAIN blocks |->
        IF b >= N THEN blocks[b] ELSE [blocks[b] EXCEPT !.visited = blocks[b].isFixed]]

\* C11: within a compute call a fixed block stays fixed and keeps its left
\* and width: no BFS component holds a fixed block, no pass of the fixed
\* detection resets isFixed, and no step of the call changes isFixed, left
\* or width of a fixed block.
C11_FixedStaysFixed ==
    /\ [](Solving =>
            \A i \in 0 .. NextComponent.NC - 1 :
                ~blocks[NextComponent.blockBuffer[i]].isFixed)
    /\ [](pc = "S5" => DetectionKeepsFixed(blocks, 0, TRUE))
    /\ []((pc = "S6" /\ iter < opts.LPIters /\ Unvisited = {}) =>
            DetectionKeepsFixed(AfterVisitedReset, 0, FALSE))
    /\ [][pc' # "S1" => FixedKept(blocks, blocks')]_vars

\* a second S6 iteration solved a component next to blocks that the first
\* one left fixed
C11_Witness ==
    /\ pc = "S6"
    /\ ran >= 1
    /\ \E b \in Live : blocks[b].isFixed
    /\ \E b \in Live : blocks[b].visited /\ ~blocks[b].isFixed

----------------------------------------------------------------------------
(* Properties of the depths.                                               *)

\* C12 as stated: after S1 every depth is in [1, total].
C12_AsStated ==
    pc = "afterS1" =>
        \A b \in Live : 1 <= blocks[b].depth /\ blocks[b].depth <= total

\* C12 (amended): after S1 on N >= 1 blocks every depth is in
\* [0, total - 1], and the block that comes first in start order has
\* depth 0 (room indices are 0-based).
C12_DepthsZeroBased ==
    pc = "afterS1" =>
        /\ \A b \in Live : 0 <= blocks[b].depth /\ blocks[b].depth <= total - 1
        /\ blocks[blocksReordered[1]].depth = 0

\* S1 opened several rooms: the first and the last one are in use
C12_Witness ==
    /\ pc = "afterS1"
    /\ total >= 3
    /\ \E b \in Live : blocks[b].depth = 0
    /\ \E b \in Live : blocks[b].depth = total - 1

----------------------------------------------------------------------------
(* Properties of the components.                                           *)

\* the blocks of the component the next pass of the S6 loop solves
Members == {NextComponent.blockBuffer[i] : i \in 0 .. NextComponent.NC - 1}

\* the idxMap the next pass of the S6 loop builds
NextIdxMap ==
    IF opts.LPModel = 2
    THEN idxMapOfModel2(idxMap, NextComponent.blockBuffer, NextComponent.NC)
    ELSE idxMapOfModel1(idxMap, NextComponent.blockBuffer, NextComponent.NC)

\* the left column the build of the next pass gives the i-th block
LeftColumn(i) == IF opts.LPModel = 2 THEN i + 1 ELSE 2 * i + 1

\* C13: from S3 on v is in cleftN(b) exactly when b is in crightN(v); the
\* component of every pass of the S6 loop consists of blocks that are not
\* fixed and not in a component solved before in the iteration, and holds
\* every block that is not fixed and a cleftN or crightN neighbour of a
\* member; and the idxMap entry read for such a cleftN neighbour is the
\* left column the same build gave it.
C13_ComponentsClosed ==
    /\ pc \in {"S4", "S5", "S6", "returned"} =>
          \A b \in Live : \A v \in Live :
              (v \in Range(blocks[b].cleftN)) <=> (b \in Range(blocks[v].crightN))
    /\ Solving =>
          /\ \A b \in Members : ~blocks[b].isFixed /\ ~blocks[b].visited
          /\ \A b \in Members :
                \A v \in Range(blocks[b].cleftN) \cup Range(blocks[b].crightN) :
                    ~blocks[v].isFixed => v \in Members
          /\ \A b \in Members : \A v \in FreeOf(blocks, blocks[b].cleftN) :
                \E i \in 0 .. NextComponent.NC - 1 :
                    /\ NextComponent.blockBuffer[i] = v
                    /\ NextIdxMap[blocks[v].idx] = LeftColumn(i)

\* a call after another one is about to solve a component of several
\* blocks, one of them with a free cleftN neighbour, while idxMap still
\* holds other columns, written by a build of the call before
C13_Witness ==
    /\ Solving
    /\ calls # <<>>
    /\ NextComponent.NC >= 2
    /\ \E b \in Members : FreeOf(blocks, blocks[b].cleftN) # {}
    /\ \E b \in Members :
          /\ idxMap[blocks[b].idx] # JunkInt
          /\ idxMap[blocks[b].idx] # NextIdxMap[blocks[b].idx]

====
